---- MODULE Spec2Model ----
(***************************************************************************)
(* Model of codegen/src/types/composite_def.rs: the normalisation of the   *)
(* metadata fields of a composite type (CompositeDefFields), the           *)
(* construction of a CompositeDef for a struct or an enum variant, and     *)
(* the rendering of both to a token stream.                                *)
(*                                                                         *)
(* Strings that the code inspects (type names, generic parameter names)    *)
(* are sequences of one-character strings; a token stream is a sequence    *)
(* of tokens, each token a string.                                         *)
(***************************************************************************)
EXTENDS Naturals, Sequences, FiniteSets

VARIABLES pc, declName, rawFields, fieldsDef, error, def, tokens, ft, repeated

vars == <<pc, declName, rawFields, fieldsDef, error, def, tokens, ft, repeated>>

(***************************************************************************)
(* Bounds of the model.                                                    *)
(***************************************************************************)
\* the longest metadata field list
MaxFields == 2

(***************************************************************************)
(* Option<T>                                                               *)
(***************************************************************************)
None == [some |-> FALSE]
Some(x) == [some |-> TRUE, val |-> x]

(***************************************************************************)
(* Strings as character sequences.                                         *)
(***************************************************************************)
StrT == <<"T">>
StrBoxU128 == <<"B", "o", "x", "<", "u", "1", "2", "8", ">">>
StrVecBox == <<"V", "e", "c", "<", "B", "o", "x", "<", "T", ">", ">">>
BoxMarker == <<"B", "o", "x", "<">>

\* str::contains(pat)
Contains(s, pat) ==
    \E i \in 1..(Len(s) + 1) :
        /\ i + Len(pat) - 1 <= Len(s)
        /\ SubSeq(s, i, i + Len(pat) - 1) = pat

(***************************************************************************)
(* The collaborators: the type registry behind TypeGenerator, the derives  *)
(* of the generated types, the generic parameters of a type definition.    *)
(***************************************************************************)
\* the portable registry: one entry per type id
Registry ==
    <<[kind |-> "Primitive", prim |-> "U8", path |-> "u8"],
      [kind |-> "Primitive", prim |-> "U16", path |-> "u16"],
      [kind |-> "Primitive", prim |-> "U32", path |-> "u32"],
      [kind |-> "Primitive", prim |-> "U64", path |-> "u64"],
      [kind |-> "Primitive", prim |-> "U128", path |-> "u128"],
      [kind |-> "Primitive", prim |-> "Bool", path |-> "bool"],
      [kind |-> "Compact", prim |-> "", path |-> "u32"]>>

TypeIds == DOMAIN Registry

\* TypeGenerator::resolve_type
resolve_type(id) == Registry[id]

\* TypePathType::is_compact, on the resolved type
is_compact(type_path) == type_path.compact

\* TypeGenerator::resolve_type_path
resolve_type_path(id) ==
    [path |-> Registry[id].path, compact |-> Registry[id].kind = "Compact"]

\* TypeGenerator::derives
AmbientDerives == <<"Encode", "Decode">>

\* GeneratedTypeDerives::push_codec_compact_as
push_codec_compact_as(derives) == Append(derives, "CompactAs")

\* heck's to_camel_case, on the declared names of the model
to_camel_case(ident) ==
    CASE ident = "my_type" -> "MyType"
      [] ident = "balance_of" -> "BalanceOf"
      [] OTHER -> ident

\* format_ident!("{}", s)
format_ident(s) == s

(***************************************************************************)
(* CompositeDefFieldType                                                   *)
(***************************************************************************)
\* CompositeDefFieldType::new
NewFieldType(type_id, type_path, type_name) ==
    [type_id |-> type_id, type_path |-> type_path, type_name |-> type_name]

\* is_boxed with starts_with in place of contains
is_boxed_starts_with(f) ==
    /\ f.type_name.some
    /\ Len(f.type_name.val) >= Len(BoxMarker)
    /\ SubSeq(f.type_name.val, 1, Len(BoxMarker)) = BoxMarker

\* CompositeDefFieldType::is_boxed
is_boxed(f) == f.type_name.some /\ Contains(f.type_name.val, BoxMarker)

\* CompositeDefFieldType::compact_attr: the tokens of the attribute, or none
compact_attr(f) ==
    IF is_compact(f.type_path) THEN <<"#[codec(compact)]">> ELSE <<>>

\* impl ToTokens for CompositeDefFieldType
FieldTypeTokens(f) ==
    IF is_boxed(f)
    THEN <<"::std::boxed::Box", "<", f.type_path.path, ">">>
    ELSE <<f.type_path.path>>

(***************************************************************************)
(* CompositeDefFields                                                      *)
(***************************************************************************)
NoFields == [tag |-> "NoFields", fields |-> <<>>]
Named(fs) == [tag |-> "Named", fields |-> fs]
Unnamed(fs) == [tag |-> "Unnamed", fields |-> fs]

\* the field type built for one metadata field (the body of the loop)
FieldTypeOf(field) ==
    NewFieldType(field.ty, resolve_type_path(field.ty), field.type_name)

\* the named bucket after the loop over fields[1..n]: (ident, field type) pairs
RECURSIVE NamedBucket(_)
NamedBucket(fields) ==
    IF fields = <<>> THEN <<>>
    ELSE LET n == Len(fields)
             rest == NamedBucket(SubSeq(fields, 1, n - 1))
             field == fields[n]
         IN  IF field.name.some
             THEN Append(rest, [name |-> format_ident(field.name.val),
                                ty |-> FieldTypeOf(field)])
             ELSE rest

\* the unnamed bucket after the loop over fields[1..n]
RECURSIVE UnnamedBucket(_)
UnnamedBucket(fields) ==
    IF fields = <<>> THEN <<>>
    ELSE LET n == Len(fields)
             rest == UnnamedBucket(SubSeq(fields, 1, n - 1))
             field == fields[n]
         IN  IF field.name.some
             THEN rest
             ELSE Append(rest, FieldTypeOf(field))

\* from_scale_info_fields without the check of the buckets
MixedBucketsUnchecked(fields) == FALSE

\* the condition of the abort_call_site! in from_scale_info_fields
MixedBuckets(fields) ==
    fields # <<>> /\ NamedBucket(fields) # <<>> /\ UnnamedBucket(fields) # <<>>

\* the message of the abort
AbortMessage(name) ==
    <<"'", name, "': Fields should either be all named or all unnamed.">>

Reverse(seq) == [i \in 1..Len(seq) |-> seq[Len(seq) + 1 - i]]

\* from_scale_info_fields with each field put in front of its bucket
from_scale_info_fields_prepend(fields) ==
    IF fields = <<>> THEN NoFields
    ELSE IF NamedBucket(fields) # <<>>
         THEN Named(Reverse(NamedBucket(fields)))
         ELSE Unnamed(Reverse(UnnamedBucket(fields)))

\* the value from_scale_info_fields returns when it does not abort
from_scale_info_fields(fields) ==
    IF fields = <<>> THEN NoFields
    ELSE IF NamedBucket(fields) # <<>>
         THEN Named(NamedBucket(fields))
         ELSE Unnamed(UnnamedBucket(fields))

\* CompositeDefFields::field_types
field_types(cdf) ==
    CASE cdf.tag = "NoFields" -> <<>>
      [] cdf.tag = "Named" -> [i \in 1..Len(cdf.fields) |-> cdf.fields[i].ty]
      [] cdf.tag = "Unnamed" -> cdf.fields


\* the tokens of an Option<&syn::Visibility>
VisibilityTokens(visibility) ==
    IF visibility.some THEN <<visibility.val>> ELSE <<>>

\* one field of Self::Named in to_struct_field_tokens
StructNamedField(f, visibility) ==
    compact_attr(f.ty) \o VisibilityTokens(visibility)
        \o <<f.name, ":">> \o FieldTypeTokens(f.ty)

\* one field of Self::Unnamed in to_struct_field_tokens
StructUnnamedField(ty, visibility) ==
    compact_attr(ty) \o VisibilityTokens(visibility) \o FieldTypeTokens(ty)

\* the marker of Self::Named in to_struct_field_tokens
NamedMarker(phantom_data, visibility) ==
    IF phantom_data.some
    THEN <<"#[codec(skip)]">> \o VisibilityTokens(visibility)
             \o <<"__subxt_unused_type_params", ":">> \o phantom_data.val
    ELSE <<>>

\* the marker of Self::Unnamed without the skip attribute
UnnamedMarkerEncoded(phantom_data, visibility) ==
    IF phantom_data.some
    THEN VisibilityTokens(visibility) \o phantom_data.val
    ELSE <<>>

\* the marker of Self::Unnamed in to_struct_field_tokens
UnnamedMarker(phantom_data, visibility) ==
    IF phantom_data.some
    THEN <<"#[codec(skip)]">> \o VisibilityTokens(visibility) \o phantom_data.val
    ELSE <<>>

\* the repetition #( #fields, )* over the first n rendered fields
RECURSIVE Repeat(_, _)
Repeat(rendered, n) ==
    IF n = 0 THEN <<>>
    ELSE Repeat(rendered, n - 1) \o rendered[n] \o <<",">>

\* CompositeDefFields::to_struct_field_tokens
to_struct_field_tokens(cdf, phantom_data, visibility) ==
    CASE cdf.tag = "NoFields" ->
            IF phantom_data.some
            THEN <<"(">> \o phantom_data.val \o <<")">>
            ELSE <<>>
      [] cdf.tag = "Named" ->
            LET fields == [i \in 1..Len(cdf.fields) |->
                              StructNamedField(cdf.fields[i], visibility)]
            IN  <<"{">> \o Repeat(fields, Len(fields))
                    \o NamedMarker(phantom_data, visibility) \o <<"}">>
      [] cdf.tag = "Unnamed" ->
            LET fields == [i \in 1..Len(cdf.fields) |->
                              StructUnnamedField(cdf.fields[i], visibility)]
            IN  <<"(">> \o Repeat(fields, Len(fields))
                    \o UnnamedMarker(phantom_data, visibility) \o <<")">>

\* the fields of a variant rendered as the fields of a struct
to_enum_variant_field_tokens_as_struct(cdf) ==
    to_struct_field_tokens(cdf, None, Some("pub"))

\* one field of Self::Named in to_enum_variant_field_tokens
VariantNamedField(f) ==
    compact_attr(f.ty) \o <<f.name, ":">> \o FieldTypeTokens(f.ty)

\* an unnamed variant field without its compact attribute
VariantUnnamedFieldBare(ty) == FieldTypeTokens(ty)

\* one field of Self::Unnamed in to_enum_variant_field_tokens
VariantUnnamedField(ty) ==
    compact_attr(ty) \o FieldTypeTokens(ty)

\* CompositeDefFields::to_enum_variant_field_tokens
to_enum_variant_field_tokens(cdf) ==
    CASE cdf.tag = "NoFields" -> <<>>
      [] cdf.tag = "Named" ->
            LET fields == [i \in 1..Len(cdf.fields) |->
                              VariantNamedField(cdf.fields[i])]
            IN  <<"{">> \o Repeat(fields, Len(fields)) \o <<"}">>
      [] cdf.tag = "Unnamed" ->
            LET fields == [i \in 1..Len(cdf.fields) |->
                              VariantUnnamedField(cdf.fields[i])]
            IN  <<"(">> \o Repeat(fields, Len(fields)) \o <<")">>

(***************************************************************************)
(* TypeDefParameters and GeneratedTypeDerives, as far as they are used.    *)
(***************************************************************************)
\* a TypeParameter
ParamT == [name |-> "T", original_name |-> StrT]

\* TypeDefParameters: the parameters and the ones no field uses
NoParams == [params |-> <<>>, unused |-> <<>>]
ParamTUsed == [params |-> <<ParamT>>, unused |-> <<>>]
ParamTUnused == [params |-> <<ParamT>>, unused |-> <<ParamT>>]

\* the identifiers of a list of parameters
ParamNames(ps) == [i \in 1..Len(ps) |-> ps[i].name]

\* TypeDefParameters::unused_params_phantom_data
unused_params_phantom_data(type_params) ==
    IF type_params.unused = <<>> THEN None
    ELSE Some(<<"::core::marker::PhantomData", "<">>
                  \o ParamNames(type_params.unused) \o <<">">>)

\* impl ToTokens for TypeDefParameters
TypeParamsTokens(type_params) ==
    IF type_params.params = <<>> THEN <<>>
    ELSE <<"<">> \o ParamNames(type_params.params) \o <<">">>

\* impl ToTokens for GeneratedTypeDerives
DerivesTokens(derives) == <<"#[derive(">> \o derives \o <<")]">>

(***************************************************************************)
(* CompositeDef                                                            *)
(***************************************************************************)
\* the TypeDefPrimitive alternatives of the matches! in struct_def
CompactAsPrimitives == {"U8", "U16", "U32", "U64", "U128"}

\* the test of struct_def without the comparison with the type parameters
CanDeriveCompactAsAnyName(type_params, fields_def) ==
    LET fields == field_types(fields_def)
    IN  /\ Len(fields) = 1
        /\ LET ty == resolve_type(fields[1].type_id)
           IN  ty.kind = "Primitive" /\ ty.prim \in CompactAsPrimitives

\* the test of struct_def refusing a boxed field
CanDeriveCompactAsUnboxed(type_params, fields_def) ==
    LET fields == field_types(fields_def)
    IN  /\ Len(fields) = 1
        /\ ~ is_boxed(fields[1])
        /\ ~ \E i \in 1..Len(type_params.params) :
                 Some(type_params.params[i].original_name) = fields[1].type_name
        /\ LET ty == resolve_type(fields[1].type_id)
           IN  ty.kind = "Primitive" /\ ty.prim \in CompactAsPrimitives

\* the test of struct_def: a single field of a concrete unsigned int type
CanDeriveCompactAs(type_params, fields_def) ==
    LET fields == field_types(fields_def)
    IN  /\ Len(fields) = 1
        /\ ~ \E i \in 1..Len(type_params.params) :
                 Some(type_params.params[i].original_name) = fields[1].type_name
        /\ LET ty == resolve_type(fields[1].type_id)
           IN  ty.kind = "Primitive" /\ ty.prim \in CompactAsPrimitives

\* CompositeDef::struct_def
struct_def(ident, type_params, fields_def, field_visibility) ==
    LET derives == IF CanDeriveCompactAs(type_params, fields_def)
                   THEN push_codec_compact_as(AmbientDerives)
                   ELSE AmbientDerives
    IN  [name |-> format_ident(to_camel_case(ident)),
         kind |-> [tag |-> "Struct",
                   derives |-> derives,
                   type_params |-> type_params,
                   field_visibility |-> field_visibility],
         fields |-> fields_def]

\* CompositeDef::enum_variant_def
enum_variant_def(ident, fields) ==
    [name |-> format_ident(ident),
     kind |-> [tag |-> "EnumVariant"],
     fields |-> fields]

\* the trailing_semicolon matching Unnamed only
trailing_semicolon_unnamed(cdf) ==
    IF cdf.tag = "Unnamed" THEN <<";">> ELSE <<>>

\* the trailing_semicolon of to_tokens
trailing_semicolon(cdf) ==
    IF cdf.tag = "NoFields" \/ cdf.tag = "Unnamed" THEN <<";">> ELSE <<>>

\* impl ToTokens for CompositeDef
to_tokens(d) ==
    IF d.kind.tag = "Struct"
    THEN LET phantom_data == unused_params_phantom_data(d.kind.type_params)
             fields == to_struct_field_tokens(d.fields, phantom_data,
                                              d.kind.field_visibility)
         IN  DerivesTokens(d.kind.derives) \o <<"pub", "struct", d.name>>
                 \o TypeParamsTokens(d.kind.type_params) \o fields
                 \o trailing_semicolon(d.fields)
    ELSE <<d.name>> \o to_enum_variant_field_tokens(d.fields)

(***************************************************************************)
(* The inputs.                                                             *)
(***************************************************************************)
DeclNames == {"my_type"}
FieldNames == {None, Some("amount"), Some("b")}
TypeNames ==
    {None, Some(StrT), Some(StrBoxU128), Some(StrVecBox)}
TypeParamChoices == {NoParams, ParamTUsed, ParamTUnused}
Visibilities == {None, Some("pub")}

\* the type names the metadata of the model carries for a type: every type
\* occurs without a type name, u128 with every type name, and the compact
\* type also with a boxed one
TypeNamesOf(id) ==
    CASE Registry[id].prim = "U128" -> TypeNames
      [] Registry[id].kind = "Compact" -> {None, Some(StrBoxU128)}
      [] OTHER -> {None}

\* a scale_info Field: its name, the id of its type, its type name
RawFields ==
    {f \in [name : FieldNames, ty : TypeIds, type_name : TypeNames] :
        f.type_name \in TypeNamesOf(f.ty)}

RawFieldLists == UNION {[1..n -> RawFields] : n \in 0..MaxFields}

(***************************************************************************)
(* The state machine: one composite type goes through from_scale_info_     *)
(* fields, then struct_def or enum_variant_def, then it is rendered.       *)
(***************************************************************************)
Init ==
    /\ pc = "start"
    /\ declName \in DeclNames
    /\ rawFields \in RawFieldLists
    /\ fieldsDef = None
    /\ error = None
    /\ def = None
    /\ tokens = None
    /\ ft = None
    /\ repeated = FALSE

\* CompositeDefFields::from_scale_info_fields(declName, rawFields, ..)
FromScaleInfoFields ==
    /\ pc = "start"
    /\ IF MixedBuckets(rawFields)
       THEN /\ pc' = "aborted"
            /\ error' = Some(AbortMessage(declName))
            /\ fieldsDef' = fieldsDef
       ELSE /\ pc' = "normalized"
            /\ error' = error
            /\ fieldsDef' = Some(from_scale_info_fields(rawFields))
    /\ UNCHANGED <<declName, rawFields, def, tokens, ft, repeated>>

\* CompositeDef::struct_def(declName, type_params, fieldsDef, visibility, ..)
StructDef ==
    /\ pc = "normalized"
    /\ \E type_params \in TypeParamChoices, visibility \in Visibilities :
           def' = Some(struct_def(declName, type_params, fieldsDef.val, visibility))
    /\ fieldsDef' = None
    /\ pc' = "built"
    /\ UNCHANGED <<declName, rawFields, error, tokens, ft, repeated>>

\* CompositeDef::enum_variant_def(declName, fieldsDef)
EnumVariantDef ==
    /\ pc = "normalized"
    /\ def' = Some(enum_variant_def(declName, fieldsDef.val))
    /\ fieldsDef' = None
    /\ pc' = "built"
    /\ UNCHANGED <<declName, rawFields, error, tokens, ft, repeated>>

\* def.to_tokens(..): the rendering of the definition
ToTokens ==
    /\ pc = "built"
    /\ tokens' = Some(to_tokens(def.val))
    /\ UNCHANGED <<pc, declName, rawFields, fieldsDef, error, def, ft, repeated>>

\* field_types taking the fields out of the definition
FieldTypesDraining ==
    /\ pc = "built"
    /\ ft' = Some(field_types(def.val.fields))
    /\ def' = Some([def.val EXCEPT !.fields = NoFields])
    /\ repeated' = (repeated \/ ft.some)
    /\ UNCHANGED <<pc, declName, rawFields, fieldsDef, error, tokens>>

\* def.fields.field_types().collect(); repeated records that the iterator
\* was asked for again on the same definition
FieldTypes ==
    /\ pc = "built"
    /\ ft' = Some(field_types(def.val.fields))
    /\ repeated' = (repeated \/ ft.some)
    /\ UNCHANGED <<pc, declName, rawFields, fieldsDef, error, def, tokens>>

Next ==
    \/ FromScaleInfoFields
    \/ StructDef
    \/ EnumVariantDef
    \/ ToTokens
    \/ FieldTypes

Spec == Init /\ [][Next]_vars

(***************************************************************************)
(* Reading a rendered token stream back: the field list is what stands     *)
(* between the first opening and the last closing delimiter; its fields    *)
(* end with a comma each, and what follows the last comma is the marker.   *)
(***************************************************************************)
Range(seq) == {seq[i] : i \in 1..Len(seq)}

Min(S) == CHOOSE x \in S : \A y \in S : x <= y
Max(S) == CHOOSE x \in S : \A y \in S : y <= x

Opening(ts) == {i \in 1..Len(ts) : ts[i] \in {"{", "("}}
Closing(ts) == {i \in 1..Len(ts) : ts[i] \in {"}", ")"}}

HasFieldList(ts) == Opening(ts) # {} /\ Closing(ts) # {}

FieldListBody(ts) == SubSeq(ts, Min(Opening(ts)) + 1, Max(Closing(ts)) - 1)

\* the parts of b[i..] between the commas, cur being the part read so far
RECURSIVE SplitFrom(_, _, _)
SplitFrom(b, i, cur) ==
    IF i > Len(b) THEN <<cur>>
    ELSE IF b[i] = "," THEN <<cur>> \o SplitFrom(b, i + 1, <<>>)
         ELSE SplitFrom(b, i + 1, Append(cur, b[i]))

SplitAtCommas(b) == SplitFrom(b, 1, <<>>)

\* the rendered fields of a token stream, in order
RenderedFields(ts) ==
    LET parts == SplitAtCommas(FieldListBody(ts))
    IN  SubSeq(parts, 1, Len(parts) - 1)

\* what is rendered after the last field
RenderedMarker(ts) ==
    LET parts == SplitAtCommas(FieldListBody(ts))
    IN  parts[Len(parts)]

\* the field types of a field model, in declaration order
ModelFieldTypes(cdf) ==
    [i \in 1..Len(cdf.fields) |->
        IF cdf.tag = "Named" THEN cdf.fields[i].ty ELSE cdf.fields[i]]

IsStruct == def.some /\ def.val.kind.tag = "Struct"
IsVariant == def.some /\ def.val.kind.tag = "EnumVariant"

HasNamedField == \E i \in 1..Len(rawFields) : rawFields[i].name.some
HasUnnamedField == \E i \in 1..Len(rawFields) : ~ rawFields[i].name.some

(***************************************************************************)
(* C1: a field list with a named and an unnamed field makes                *)
(* from_scale_info_fields abort with the message that names the declared   *)
(* type, and no CompositeDefFields is returned; a list that is not mixed   *)
(* never aborts.                                                           *)
(***************************************************************************)
C1_MixedAborts ==
    pc # "start" =>
        IF HasNamedField /\ HasUnnamedField
        THEN /\ pc = "aborted"
             /\ error.some
             /\ error.val[1] = "'" /\ error.val[2] = declName
             /\ fieldsDef = None
             /\ def = None
        ELSE /\ pc # "aborted"
             /\ error = None

C1_Witness ==
    /\ pc = "aborted"
    /\ Len(rawFields) = 2
    /\ rawFields[1].name.some
    /\ ~ rawFields[2].name.some

(***************************************************************************)
(* C2: for a field list that is not mixed, from_scale_info_fields returns  *)
(* NoFields for the empty list, Named when every field has a name and      *)
(* Unnamed when none has; Named and Unnamed hold one entry per input       *)
(* field, in input order, with its type id, resolved path and type name    *)
(* (and its name in Named).                                                *)
(***************************************************************************)
C2_Normalized ==
    pc = "normalized" =>
        LET cdf == fieldsDef.val
        IN  /\ fieldsDef.some
            /\ rawFields = <<>> => cdf = NoFields
            /\ rawFields # <<>> =>
                 /\ cdf.tag = (IF HasNamedField THEN "Named" ELSE "Unnamed")
                 /\ Len(cdf.fields) = Len(rawFields)
                 /\ \A i \in 1..Len(rawFields) :
                        LET ty == ModelFieldTypes(cdf)[i]
                        IN  /\ ty.type_id = rawFields[i].ty
                            /\ ty.type_path.path = Registry[rawFields[i].ty].path
                            /\ ty.type_name = rawFields[i].type_name
                            /\ HasNamedField =>
                                   cdf.fields[i].name = rawFields[i].name.val

C2_Witness ==
    /\ pc = "normalized"
    /\ fieldsDef.some
    /\ fieldsDef.val.tag = "Named"
    /\ Len(rawFields) = 2
    /\ rawFields[1].name # rawFields[2].name
    /\ rawFields[1].ty # rawFields[2].ty

(***************************************************************************)
(* C3: struct_def adds the compact-as derive to the ambient derives        *)
(* exactly when the field model has one field, the type of the field       *)
(* resolves to a primitive U8, U16, U32, U64 or U128, and the type name    *)
(* of the field is not the original name of a type parameter of the        *)
(* struct; otherwise the derives are the ambient ones.                     *)
(***************************************************************************)
UnsignedInts == {"U8", "U16", "U32", "U64", "U128"}

SingleConcreteUnsigned ==
    LET tys == ModelFieldTypes(def.val.fields)
        params == def.val.kind.type_params.params
    IN  /\ Len(tys) = 1
        /\ Registry[tys[1].type_id].kind = "Primitive"
        /\ Registry[tys[1].type_id].prim \in UnsignedInts
        /\ \A i \in 1..Len(params) :
               \/ ~ tys[1].type_name.some
               \/ tys[1].type_name.val # params[i].original_name

C3_CompactAsDerive ==
    IsStruct =>
        def.val.kind.derives =
            IF SingleConcreteUnsigned
            THEN AmbientDerives \o <<"CompactAs">>
            ELSE AmbientDerives

C3_Witness ==
    /\ IsStruct
    /\ def.val.kind.type_params = NoParams
    /\ Len(rawFields) = 1
    /\ rawFields[1].type_name = Some(StrT)
    /\ "CompactAs" \in Range(def.val.kind.derives)

(***************************************************************************)
(* C4: the struct with the single named field amount, whose type resolves  *)
(* to u128 and whose type name is Box<u128>, and with the unused type      *)
(* parameter T.  As claimed: the struct does not get the compact-as        *)
(* derive.  As the code has it: the struct gets the compact-as derive,     *)
(* the test is on the resolved type and not on the box.                    *)
(***************************************************************************)
RoundTripScenario ==
    /\ IsStruct
    /\ Len(rawFields) = 1
    /\ rawFields[1].name = Some("amount")
    /\ Registry[rawFields[1].ty].prim = "U128"
    /\ rawFields[1].type_name = Some(StrBoxU128)
    /\ def.val.kind.type_params = ParamTUnused

C4_ScenarioWithoutCompactAs ==
    RoundTripScenario => "CompactAs" \notin Range(def.val.kind.derives)

C4_ScenarioDerivesCompactAs ==
    RoundTripScenario =>
        /\ def.val.fields.tag = "Named"
        /\ "CompactAs" \in Range(def.val.kind.derives)

C4_Witness == RoundTripScenario /\ tokens.some

(***************************************************************************)
(* C5: the rendering of a struct ends with the semicolon exactly when its  *)
(* field model is NoFields or Unnamed; a Named model never has it, with    *)
(* or without the marker of the unused type parameters; a variant never    *)
(* has it.                                                                 *)
(***************************************************************************)
C5_TrailingSemicolon ==
    tokens.some =>
        LET ts == tokens.val
            semis == {i \in 1..Len(ts) : ts[i] = ";"}
        IN  IF IsStruct /\ def.val.fields.tag \in {"NoFields", "Unnamed"}
            THEN semis = {Len(ts)}
            ELSE semis = {}

C5_Witness ==
    /\ tokens.some
    /\ IsStruct
    /\ def.val.fields.tag = "NoFields"
    /\ tokens.val[Len(tokens.val)] = ";"

(***************************************************************************)
(* C6: in the rendering of a struct and in the rendering of a variant,     *)
(* for Named and for Unnamed, the rendered field i has the compact         *)
(* attribute exactly when the type path of field i is compact, whatever    *)
(* the other fields are.                                                   *)
(***************************************************************************)
HasFields == def.some /\ def.val.fields.tag \in {"Named", "Unnamed"}

C6_CompactAttribute ==
    (tokens.some /\ HasFields) =>
        LET rendered == RenderedFields(tokens.val)
            tys == ModelFieldTypes(def.val.fields)
        IN  /\ Len(rendered) = Len(tys)
            /\ \A i \in 1..Len(tys) :
                   ("#[codec(compact)]" \in Range(rendered[i]))
                       <=> is_compact(tys[i].type_path)

C6_Witness ==
    /\ tokens.some
    /\ IsVariant
    /\ def.val.fields.tag = "Unnamed"
    /\ Len(rawFields) = 2
    /\ Registry[rawFields[1].ty].kind = "Compact"
    /\ Registry[rawFields[2].ty].kind # "Compact"

(***************************************************************************)
(* C7: a field type is rendered as Box around its resolved path exactly    *)
(* when it has a type name and the type name contains Box<; otherwise it   *)
(* is rendered as the resolved path alone; the resolved path and the       *)
(* compact attribute do not matter.                                        *)
(***************************************************************************)
HasBoxMarker(name) ==
    \E i \in 1..Len(name) :
        /\ i + 3 <= Len(name)
        /\ name[i] = "B" /\ name[i + 1] = "o" /\ name[i + 2] = "x"
        /\ name[i + 3] = "<"

C7_BoxedRendering ==
    (tokens.some /\ HasFields) =>
        LET rendered == RenderedFields(tokens.val)
            tys == ModelFieldTypes(def.val.fields)
        IN  /\ Len(rendered) = Len(tys)
            /\ \A i \in 1..Len(tys) :
                   LET seg == rendered[i]
                       n == Len(seg)
                       path == tys[i].type_path.path
                   IN  IF tys[i].type_name.some
                              /\ HasBoxMarker(tys[i].type_name.val)
                       THEN /\ n >= 4
                            /\ SubSeq(seg, n - 3, n) =
                                   <<"::std::boxed::Box", "<", path, ">">>
                       ELSE /\ n >= 1
                            /\ seg[n] = path
                            /\ "::std::boxed::Box" \notin Range(seg)

C7_Witness ==
    /\ tokens.some
    /\ Len(rawFields) = 2
    /\ HasFields
    /\ rawFields[1].type_name = Some(StrVecBox)
    /\ rawFields[2].type_name = None
    /\ "::std::boxed::Box" \in Range(RenderedFields(tokens.val)[1])

(***************************************************************************)
(* C8: the rendering of a definition built by enum_variant_def is the      *)
(* name of the variant and then its field list: no derives, no             *)
(* visibility, no generic parameters, no marker of unused parameters; the  *)
(* variant holds no derives at all.                                        *)
(***************************************************************************)
StructOnlyTokens ==
    {"#[derive(", ")]", "pub", "struct", "#[codec(skip)]",
     "__subxt_unused_type_params", "::core::marker::PhantomData", ";"}

C8_VariantRendering ==
    IsVariant =>
        /\ DOMAIN def.val.kind = {"tag"}
        /\ def.val.name = declName
        /\ tokens.some =>
               LET ts == tokens.val
               IN  /\ ts[1] = def.val.name
                   /\ Range(ts) \cap StructOnlyTokens = {}
                   /\ Range(ts) \cap Range(AmbientDerives \o <<"CompactAs">>) = {}
                   /\ IF def.val.fields.tag = "NoFields"
                      THEN Len(ts) = 1
                      ELSE /\ ts[2] = (IF def.val.fields.tag = "Named"
                                       THEN "{" ELSE "(")
                           /\ RenderedMarker(ts) = <<>>

C8_Witness ==
    /\ IsVariant
    /\ tokens.some
    /\ Len(rawFields) = 1
    /\ rawFields[1].name = None
    /\ Registry[rawFields[1].ty].prim = "U8"
    /\ tokens.val = <<declName, "(", "u8", ",", ")">>

(***************************************************************************)
(* C9: in the rendering of a struct the marker of the unused type          *)
(* parameters is there exactly when there are unused parameters, once      *)
(* and after all the fields: for NoFields the field list is the marker     *)
(* alone, or nothing; for Named and Unnamed the marker is last and has     *)
(* the skip attribute, and the fields before it are the fields of the      *)
(* model in order.                                                         *)
(***************************************************************************)
Count(ts, t) == Cardinality({i \in 1..Len(ts) : ts[i] = t})

C9_UnusedParamsMarker ==
    (IsStruct /\ tokens.some) =>
        LET ts == tokens.val
            cdf == def.val.fields
            phantom == unused_params_phantom_data(def.val.kind.type_params)
            supplied == def.val.kind.type_params.unused # <<>>
        IN  /\ phantom.some = supplied
            /\ Count(ts, "::core::marker::PhantomData") =
                   (IF supplied THEN 1 ELSE 0)
            /\ IF cdf.tag = "NoFields"
               THEN /\ Count(ts, "#[codec(skip)]") = 0
                    /\ IF supplied
                       THEN /\ HasFieldList(ts)
                            /\ FieldListBody(ts) = phantom.val
                       ELSE ~ HasFieldList(ts)
               ELSE LET rendered == RenderedFields(ts)
                        marker == RenderedMarker(ts)
                        tys == ModelFieldTypes(cdf)
                        m == Len(marker)
                    IN  /\ Count(ts, "#[codec(skip)]") =
                               (IF supplied THEN 1 ELSE 0)
                        /\ IF supplied
                           THEN /\ m > Len(phantom.val)
                                /\ marker[1] = "#[codec(skip)]"
                                /\ SubSeq(marker, m - Len(phantom.val) + 1, m)
                                       = phantom.val
                                /\ ("__subxt_unused_type_params" \in Range(marker))
                                       <=> (cdf.tag = "Named")
                           ELSE marker = <<>>
                        /\ Len(rendered) = Len(tys)
                        /\ \A i \in 1..Len(tys) :
                               /\ tys[i].type_path.path \in Range(rendered[i])
                               /\ "#[codec(skip)]" \notin Range(rendered[i])
                               /\ cdf.tag = "Named" =>
                                      cdf.fields[i].name \in Range(rendered[i])

C9_Witness ==
    /\ IsStruct
    /\ tokens.some
    /\ def.val.fields.tag = "Unnamed"
    /\ Len(rawFields) = 2
    /\ rawFields[1].ty # rawFields[2].ty
    /\ def.val.kind.type_params.unused # <<>>
    /\ RenderedMarker(tokens.val)[1] = "#[codec(skip)]"

(***************************************************************************)
(* C10: once built, the field model of a definition does not change:       *)
(* struct_def and enum_variant_def store the model they are given, and     *)
(* no call of field_types or of the rendering changes the definition;      *)
(* field_types gives the fields in declaration order, and a repeated       *)
(* call of field_types or of the rendering gives what the call before      *)
(* gave.                                                                   *)
(***************************************************************************)
C10_NoMutation ==
    [][/\ (pc = "normalized" /\ pc' = "built") =>
              def'.val.fields = fieldsDef.val
       /\ pc = "built" =>
              /\ def' = def
              /\ ft.some => ft' = ft
              /\ tokens.some => tokens' = tokens
              /\ ft'.some => ft'.val = ModelFieldTypes(def.val.fields)]_vars

C10_Witness ==
    /\ pc = "built"
    /\ repeated
    /\ ft.some
    /\ tokens.some
    /\ Len(ft.val) = 2
    /\ ft.val[1] # ft.val[2]

====
